---------------------------- MODULE Spec2Model ----------------------------
(***************************************************************************)
(* Model of halefoglu-kurutepe.py: a greedy grid sweep that packs rotated  *)
(* copies of one convex polygon into a rectangular container, the          *)
(* utilization figure computed from the result, and the two Tk handlers    *)
(* that drive it through the global `points`.                              *)
(*                                                                         *)
(* Geometry is exact.  A point is a pair <<x, y>> of integers, a polygon   *)
(* the sequence of its vertices in counter-clockwise order (the order      *)
(* scipy's ConvexHull reports in 2-D) without the closing vertex.  The     *)
(* arguments of a call are kept in length units; the geometry of a run is  *)
(* kept in units of 1/den of a length unit, den being the least            *)
(* denominator that makes the centroid of the base shape integral, so that *)
(* rotation about the centroid by a multiple of 90 degrees stays on the    *)
(* integer lattice.                                                        *)
(***************************************************************************)
EXTENDS Integers, Sequences, FiniteSets

VARIABLES
    points,                 \* the module global `points` (None or an array)
    pc,                     \* "idle" | "place_shapes" | "placed" | "returned"
    caller,                 \* which entry point started the running call
    args,                   \* arguments of the running call, in length units
    den,                    \* sub-units per length unit of the run's geometry
    container,              \* place_shapes: container
    rotated_shapes,         \* place_shapes: rotated_shapes, in insertion order
    placed_shapes,          \* place_shapes: placed_shapes
    xs, ys,                 \* the two np.arange sequences of the sweep
    xi, yi, ai,             \* position of the three nested loops
    utilization_percentage, \* draw_full_convex_hull: the figure reported
    dialog,                 \* last messagebox shown
    raised                  \* exception that ended the call, if any

vars == <<points, pc, caller, args, den, container, rotated_shapes,
          placed_shapes, xs, ys, xi, yi, ai, utilization_percentage,
          dialog, raised>>

None == "None"

\* utilization_percentage before line 131 has bound it (no fraction has dn = 0).
Unbound == [num |-> 0, dn |-> 0]

-----------------------------------------------------------------------------
(* Arithmetic helpers *)

Abs(n) == IF n < 0 THEN -n ELSE n

RECURSIVE GCD(_, _)
GCD(a, b) == IF b = 0 THEN Abs(a) ELSE GCD(Abs(b), Abs(a) % Abs(b))

Range(s) == {s[i] : i \in DOMAIN s}

-----------------------------------------------------------------------------
(* Polygons: what the code uses of shapely *)

Succ(i, n) == (i % n) + 1

\* Twice the signed area of triangle o, a, b: > 0 when b is left of o -> a.
Cross(o, a, b) == (a[1] - o[1]) * (b[2] - o[2]) - (a[2] - o[2]) * (b[1] - o[1])

RECURSIVE SumTo(_, _)
SumTo(f, n) == IF n = 0 THEN 0 ELSE f[n] + SumTo(f, n - 1)

\* Twice the signed area (shoelace), taken relative to the first vertex.
Area2(poly) ==
    LET n == Len(poly)
        t == [i \in 1..n |-> Cross(poly[1], poly[i], poly[Succ(i, n)])]
    IN  SumTo(t, n)

\* Polygon.area, doubled (always >= 0).
area(poly) == Abs(Area2(poly))

\* Numerator of the centroid relative to the first vertex: the centroid is
\* poly[1] + CentroidNum(poly) / (3 * Area2(poly)).
CentroidNum(poly) ==
    LET n == Len(poly)
        o == poly[1]
        c == [i \in 1..n |-> Cross(o, poly[i], poly[Succ(i, n)])]
        tx == [i \in 1..n |->
                 ((poly[i][1] - o[1]) + (poly[Succ(i, n)][1] - o[1])) * c[i]]
        ty == [i \in 1..n |->
                 ((poly[i][2] - o[2]) + (poly[Succ(i, n)][2] - o[2])) * c[i]]
    IN  <<SumTo(tx, n), SumTo(ty, n)>>

\* Least denominator over which the centroid of an integer polygon is integral.
CentroidDen(poly) ==
    LET d == 3 * Area2(poly)
        c == CentroidNum(poly)
    IN  d \div GCD(d, GCD(c[1], c[2]))

\* Polygon.centroid, for a polygon whose centroid is a lattice point.
centroid(poly) ==
    LET d == 3 * Area2(poly)
        c == CentroidNum(poly)
    IN  <<poly[1][1] + c[1] \div d, poly[1][2] + c[2] \div d>>

\* The same polygon expressed in units of 1/k.
Scale(poly, k) == [i \in 1..Len(poly) |-> <<k * poly[i][1], k * poly[i][2]>>]

\* shapely.affinity.translate(geom, xoff, yoff)
translate(poly, xoff, yoff) ==
    [i \in 1..Len(poly) |-> <<poly[i][1] + xoff, poly[i][2] + yoff>>]

\* shapely.affinity.rotate(geom, angle, origin='centroid'): counter-clockwise,
\* with cos and sin exact at the multiples of 90 degrees, as the affine matrix
\* x' = cos*x - sin*y + (x0 - x0*cos + y0*sin),
\* y' = sin*x + cos*y + (y0 - x0*sin - y0*cos).
rotate(poly, angle) ==
    LET c  == centroid(poly)
        a  == angle % 360
        cs == CASE a = 0 -> 1 [] a = 90 -> 0 [] a = 180 -> -1 [] a = 270 -> 0
        sn == CASE a = 0 -> 0 [] a = 90 -> 1 [] a = 180 -> 0 [] a = 270 -> -1
        xoff == c[1] - c[1] * cs + c[2] * sn
        yoff == c[2] - c[1] * sn - c[2] * cs
    IN  [i \in 1..Len(poly) |->
           <<cs * poly[i][1] - sn * poly[i][2] + xoff,
             sn * poly[i][1] + cs * poly[i][2] + yoff>>]

\* Polygon.bounds: (minx, miny, maxx, maxy)
bounds(poly) ==
    LET X == {p[1] : p \in Range(poly)}
        Y == {p[2] : p \in Range(poly)}
    IN  <<CHOOSE v \in X : \A w \in X : v <= w,
          CHOOSE v \in Y : \A w \in Y : v <= w,
          CHOOSE v \in X : \A w \in X : v >= w,
          CHOOSE v \in Y : \A w \in Y : v >= w>>

\* a.contains(b) for convex a and b of positive area: no point of b lies in the
\* exterior of a, i.e. every vertex of b is left of or on every edge of a.
contains(a, b) ==
    \A i \in 1..Len(a) : \A v \in Range(b) :
        Cross(a[i], a[Succ(i, Len(a))], v) >= 0

\* Some edge of a has all of b strictly on its outer side.
Separates(a, b) ==
    \E i \in 1..Len(a) : \A v \in Range(b) :
        Cross(a[i], a[Succ(i, Len(a))], v) < 0

\* a.intersects(b) for convex polygons: the closed regions share a point
\* (boundary contact counts), i.e. no edge of either separates them strictly.
intersects(a, b) == ~Separates(a, b) /\ ~Separates(b, a)

\* The interiors share a point: no edge of either has the other polygon on its
\* outer side or on its line.
InteriorsIntersect(a, b) ==
    /\ ~\E i \in 1..Len(a) : \A v \in Range(b) :
            Cross(a[i], a[Succ(i, Len(a))], v) <= 0
    /\ ~\E i \in 1..Len(b) : \A v \in Range(a) :
            Cross(b[i], b[Succ(i, Len(b))], v) <= 0


-----------------------------------------------------------------------------
(* scipy.spatial.ConvexHull, as far as draw_full_convex_hull uses it *)

\* r lies on the segment from p to q (p, q, r collinear).
Between(p, r, q) ==
    (r[1] - p[1]) * (q[1] - r[1]) + (r[2] - p[2]) * (q[2] - r[2]) >= 0

\* Qhull refuses an input without three points in general position.
Degenerate(S) == \A p \in S : \A q \in S : \A r \in S : Cross(p, q, r) = 0

\* The hull vertex that follows p counter-clockwise.
HullNext(S, p) ==
    CHOOSE q \in S \ {p} :
        \A r \in S : \/ Cross(p, q, r) > 0
                     \/ Cross(p, q, r) = 0 /\ Between(p, r, q)

RECURSIVE HullFrom(_, _, _, _)
HullFrom(S, first, p, acc) ==
    LET q == HullNext(S, p)
    IN  IF q = first THEN acc ELSE HullFrom(S, first, q, Append(acc, q))

\* points[ConvexHull(points).vertices]: the extreme points, counter-clockwise.
\* (Where Qhull starts the cycle is not specified; nothing below depends on it.)
hull_points(pts) ==
    LET S == Range(pts)
        first == CHOOSE p \in S :
                    \A q \in S : p[1] < q[1] \/ (p[1] = q[1] /\ p[2] <= q[2])
    IN  HullFrom(S, first, first, <<first>>)

-----------------------------------------------------------------------------
(* Section 3 of the source: shape operations *)

\* create_shapely_polygon(points): Polygon(points), with no check of its own.
create_shapely_polygon(pts) == pts

\* rotated_shapes[angle] = ...: a dict keeps a key at its first position.
DictPut(d, k, v) ==
    IF \E i \in 1..Len(d) : d[i].angle = k
    THEN [i \in 1..Len(d) |->
            IF d[i].angle = k THEN [angle |-> k, shape |-> v] ELSE d[i]]
    ELSE Append(d, [angle |-> k, shape |-> v])

RECURSIVE RotatedUpTo(_, _, _)
RotatedUpTo(shape, angles, n) ==
    IF n = 0 THEN <<>>
    ELSE DictPut(RotatedUpTo(shape, angles, n - 1),
                 angles[n], rotate(shape, angles[n]))

RECURSIVE Reverse(_)
Reverse(s) == IF s = <<>> THEN <<>> ELSE Append(Reverse(Tail(s)), Head(s))

create_rotated_shapes_reversed(shape, angles) ==
    Reverse(RotatedUpTo(shape, angles, Len(angles)))

create_rotated_shapes(shape, angles) == RotatedUpTo(shape, angles, Len(angles))

can_place_no_bounds(candidate, placed, bnds) ==
    \A i \in 1..Len(placed) : ~intersects(candidate, placed[i])

can_place_last_only(candidate, placed, bnds) ==
    /\ contains(bnds, candidate)
    /\ placed # <<>> => ~intersects(candidate, placed[Len(placed)])

can_place_no_overlap_test(candidate, placed, bnds) == contains(bnds, candidate)

can_place_touching(candidate, placed, bnds) ==
    /\ contains(bnds, candidate)
    /\ \A i \in 1..Len(placed) : ~InteriorsIntersect(candidate, placed[i])

can_place(candidate, placed, bnds) ==
    /\ contains(bnds, candidate)
    /\ \A i \in 1..Len(placed) : ~intersects(candidate, placed[i])

\* np.arange(start, stop, step) for integers and step > 0.
arange(start, stop, step) ==
    LET n == IF stop > start THEN (stop - start + step - 1) \div step ELSE 0
    IN  [i \in 1..n |-> start + (i - 1) * step]

list_prepend(list, item) == <<item>> \o list

\* list.append(item)
list_append(list, item) == Append(list, item)

\* Lines 129-131: (total_shape_area / total_cutting_area) * 100, as the exact
\* fraction num / dn (both areas doubled, which cancels).
utilization(placed, cont) ==
    LET a == [i \in 1..Len(placed) |-> area(placed[i])]
    IN  [num |-> 100 * SumTo(a, Len(placed)), dn |-> area(cont)]

\* Polygon([(0, 0), (x_limit, 0), (x_limit, y_limit), (0, y_limit)])
Rect(x_limit, y_limit) ==
    <<<<0, 0>>, <<x_limit, 0>>, <<x_limit, y_limit>>, <<0, y_limit>>>>

-----------------------------------------------------------------------------
(* Inputs.  Every shape has a centroid that binary floating point represents *)
(* exactly, so the arithmetic of the code is exact on them as well.          *)

MaxSide == 4
MaxStep == 2

XLimit == 1000
YLimit == 200
GridStep == 10

UnitSquare == <<<<0, 0>>, <<1, 0>>, <<1, 1>>, <<0, 1>>>>
Rect2x1    == <<<<0, 0>>, <<2, 0>>, <<2, 1>>, <<0, 1>>>>
Triangle3  == <<<<0, 0>>, <<3, 0>>, <<0, 3>>>>
Diamond    == <<<<1, 0>>, <<2, 1>>, <<1, 2>>, <<0, 1>>>>

Shapes == {UnitSquare, Rect2x1, Triangle3, Diamond}

AllAngles == <<0, 90, 180, 270>>

AngleLists == {<<>>, <<0>>, AllAngles, <<90, 0>>, <<180, 0, 180>>, <<270, 180>>}

Sides == (1..MaxSide) \cup {10}

\* Arguments of draw_full_convex_hull called directly.
PointLists ==
    { <<>>,
      << <<1, 1>> >>,
      << <<0, 0>>, <<4, 4>> >>,
      << <<0, 0>>, <<2, 2>>, <<4, 4>> >>,
      << <<0, 0>>, <<6, 0>>, <<0, 6>> >>,
      << <<10, 10>>, <<0, 0>>, <<5, 5>>, <<10, 0>>, <<0, 10>> >>,
      << <<10, 4>>, <<0, 0>>, <<0, 4>>, <<10, 0>> >> }

Limits == { <<20, 10>>, <<30, 20>> }

\* Results of select_points_on_plot: clicks in the 50 x 50 plot.
Clicks ==
    { <<>>,
      << <<5, 5>>, <<20, 30>> >>,
      << <<0, 0>>, <<40, 0>>, <<40, 40>>, <<0, 40>>, <<20, 10>> >>,
      << <<0, 0>>, <<30, 0>>, <<0, 30>> >> }

NoArgs == [pts |-> None, container |-> <<>>, shape |-> <<>>,
           angles |-> <<>>, grid_step |-> 0]

-----------------------------------------------------------------------------
(* place_shapes *)

\* The candidate of the innermost loop body (line 79).
Candidate == translate(rotated_shapes[ai].shape, xs[xi], ys[yi])

\* Lines 71-75, and entry into the loops: with no anchor or no angle the loop
\* body never runs and the function returns at once.
EnterPlaceShapes(cont, shape, angles, grid_step) ==
    LET k  == CentroidDen(shape)
        c  == Scale(cont, k)
        b  == bounds(c)
        rs == create_rotated_shapes(Scale(shape, k), angles)
        ax == arange(b[1], b[3], grid_step * k)
        ay == arange(b[2], b[4], grid_step * k)
    IN  /\ den' = k
        /\ container' = c
        /\ rotated_shapes' = rs
        /\ placed_shapes' = <<>>
        /\ xs' = ax
        /\ ys' = ay
        /\ xi' = 1 /\ yi' = 1 /\ ai' = 1
        /\ pc' = IF ax = <<>> \/ ay = <<>> \/ rs = <<>>
                 THEN "placed" ELSE "place_shapes"

\* Leaving an anchor: the next y, else the next x, else the end of the sweep.
NextAnchor ==
    IF yi < Len(ys)
    THEN yi' = yi + 1 /\ ai' = 1 /\ UNCHANGED <<xi, pc>>
    ELSE IF xi < Len(xs)
         THEN xi' = xi + 1 /\ yi' = 1 /\ ai' = 1 /\ UNCHANGED pc
         ELSE pc' = "placed" /\ UNCHANGED <<xi, yi, ai>>

AfterRejectSkipAngles == NextAnchor

\* A rejected candidate: the next angle at this anchor, if there is one.
AfterReject ==
    IF ai < Len(rotated_shapes)
    THEN ai' = ai + 1 /\ UNCHANGED <<xi, yi, pc>>
    ELSE NextAnchor

\* An accepted candidate: break (line 82).
AfterAccept == NextAnchor

SweepFrame == <<points, caller, args, den, container, rotated_shapes, xs, ys,
                utilization_percentage, dialog, raised>>

\* Lines 79-82 with can_place true.
Accept ==
    /\ pc = "place_shapes"
    /\ can_place(Candidate, placed_shapes, container)
    /\ placed_shapes' = list_append(placed_shapes, Candidate)
    /\ AfterAccept
    /\ UNCHANGED SweepFrame

\* Lines 79-80 with can_place false.
Reject ==
    /\ pc = "place_shapes"
    /\ ~can_place(Candidate, placed_shapes, container)
    /\ AfterReject
    /\ UNCHANGED <<placed_shapes, SweepFrame>>

\* place_shapes(container, shape, angles, grid_step) called directly.
CallPlaceShapes(w, h, shape, angles, grid_step) ==
    /\ pc = "idle"
    /\ caller' = "place_shapes"
    /\ args' = [pts |-> None, container |-> Rect(w, h), shape |-> shape,
                angles |-> angles, grid_step |-> grid_step]
    /\ EnterPlaceShapes(Rect(w, h), shape, angles, grid_step)
    /\ UNCHANGED <<points, utilization_percentage, dialog, raised>>

-----------------------------------------------------------------------------
(* draw_full_convex_hull *)

ShowErrorSelect3 == "showerror: At least 3 points must be selected!"
ShowErrorFirst   == "showerror: Please select points first!"
ShowWarning      == "showwarning: At least 3 points must be selected!"
ShowInfo         == "showinfo: Points have been successfully selected!"

\* The locals of the call in progress (or of the last one, once it returned).
Frame == <<den, container, rotated_shapes, placed_shapes, xs, ys,
           xi, yi, ai, utilization_percentage>>

\* A call that ends before line 102 has bound none of them.
FreshFrame ==
    /\ den' = 1
    /\ container' = <<>>
    /\ rotated_shapes' = <<>>
    /\ placed_shapes' = <<>>
    /\ xs' = <<>> /\ ys' = <<>>
    /\ xi' = 1 /\ yi' = 1 /\ ai' = 1
    /\ utilization_percentage' = Unbound

\* Line 93.
TooFew(pts) == Len(pts) < 3

\* Lines 93-109 for the given points, on behalf of `who`.
draw_full_convex_hull(pts, x_limit, y_limit, who) ==
    /\ caller' = who
    /\ IF TooFew(pts)
       THEN \* lines 93-95
            /\ dialog' = ShowErrorSelect3
            /\ raised' = "none"
            /\ args' = [NoArgs EXCEPT !.pts = pts]
            /\ pc' = IF who = "gui" THEN "idle" ELSE "returned"
            /\ FreshFrame
       ELSE IF Degenerate(Range(pts))
       THEN \* line 98 raises
            /\ raised' = "QhullError"
            /\ args' = [NoArgs EXCEPT !.pts = pts]
            /\ pc' = IF who = "gui" THEN "idle" ELSE "returned"
            /\ FreshFrame
            /\ UNCHANGED dialog
       ELSE \* lines 98-109
            LET original_shape == create_shapely_polygon(hull_points(pts))
                cont == Rect(x_limit, y_limit)
            IN  /\ args' = [pts |-> pts, container |-> cont,
                            shape |-> original_shape, angles |-> AllAngles,
                            grid_step |-> GridStep]
                /\ EnterPlaceShapes(cont, original_shape, AllAngles, GridStep)
                /\ utilization_percentage' = Unbound
                /\ raised' = "none"
                /\ UNCHANGED dialog

\* draw_full_convex_hull(points, x_limit, y_limit) called directly.
CallDraw(pts, x_limit, y_limit) ==
    /\ pc = "idle"
    /\ draw_full_convex_hull(pts, x_limit, y_limit, "draw")
    /\ UNCHANGED points

\* Lines 111-135 once place_shapes has returned: the figure and the efficiency.
Report ==
    /\ pc = "placed"
    /\ caller \in {"draw", "gui"}
    /\ utilization_percentage' = utilization(placed_shapes, container)
    /\ pc' = IF caller = "gui" THEN "idle" ELSE "returned"
    /\ UNCHANGED <<points, caller, args, den, container, rotated_shapes,
                   placed_shapes, xs, ys, xi, yi, ai, dialog, raised>>

-----------------------------------------------------------------------------
(* The Tk handlers of start_gui *)

on_select_points_keep(sel) ==
    /\ pc = "idle"
    /\ points' = sel
    /\ dialog' = IF Len(sel) < 3 THEN ShowWarning ELSE ShowInfo
    /\ UNCHANGED <<pc, caller, args, raised, Frame>>

\* Lines 145-152, `sel` being what select_points_on_plot returned.
on_select_points(sel) ==
    /\ pc = "idle"
    /\ points' = IF Len(sel) < 3 THEN None ELSE sel
    /\ dialog' = IF Len(sel) < 3 THEN ShowWarning ELSE ShowInfo
    /\ UNCHANGED <<pc, caller, args, raised, Frame>>

\* Lines 154-158.
on_display_cutting_area ==
    /\ pc = "idle"
    /\ IF points = None \/ Len(points) < 3
       THEN /\ dialog' = ShowErrorFirst
            /\ UNCHANGED <<pc, caller, args, raised, Frame>>
       ELSE draw_full_convex_hull(points, XLimit, YLimit, "gui")
    /\ UNCHANGED points

-----------------------------------------------------------------------------
(* Specifications *)

Init ==
    /\ points = None
    /\ pc = "idle"
    /\ caller = "none"
    /\ args = NoArgs
    /\ den = 1
    /\ container = <<>>
    /\ rotated_shapes = <<>>
    /\ placed_shapes = <<>>
    /\ xs = <<>> /\ ys = <<>>
    /\ xi = 1 /\ yi = 1 /\ ai = 1
    /\ utilization_percentage = Unbound
    /\ dialog = "none"
    /\ raised = "none"

\* The functions of the module called directly, one call per behaviour.
Next ==
    \/ \E w \in Sides : \E h \in Sides : \E shape \in Shapes :
       \E angles \in AngleLists : \E grid_step \in 1..MaxStep :
           CallPlaceShapes(w, h, shape, angles, grid_step)
    \/ \E pts \in PointLists : \E lim \in Limits : CallDraw(pts, lim[1], lim[2])
    \/ Accept
    \/ Reject
    \/ Report

Spec == Init /\ [][Next]_vars

\* The program as started by __main__: points = None, then the Tk main loop.
NextGui ==
    \/ \E sel \in Clicks : on_select_points(sel)
    \/ on_display_cutting_area
    \/ Accept
    \/ Reject
    \/ Report

SpecGui == Init /\ [][NextGui]_vars

-----------------------------------------------------------------------------
(* Vocabulary of the properties, defined apart from the operators of the sweep *)

\* A place_shapes call has been entered (its locals are bound).
Entered == container # <<>>

BaseShape == Scale(args.shape, den)

Box == bounds(container)

\* The anchors of a half-open range [lo, hi) in steps of grid_step.
GridOf(lo, hi) ==
    {v \in lo..(hi - 1) : (v - lo) % (args.grid_step * den) = 0}

Anchors == GridOf(Box[1], Box[3]) \X GridOf(Box[2], Box[4])

\* The candidate of angle a at anchor (x, y).
Variant(a, x, y) == translate(rotate(BaseShape, a), x, y)

\* Rotation keeps the centroid, so a placed shape tells its anchor.
AnchorOf(p) ==
    <<centroid(p)[1] - centroid(BaseShape)[1],
      centroid(p)[2] - centroid(BaseShape)[2]>>

\* Visit order of the sweep: x in the outer loop, y in the inner loop.
Before(a, b) == a[1] < b[1] \/ (a[1] = b[1] /\ a[2] < b[2])

InBox(p) ==
    \A v \in Range(p) : /\ Box[1] <= v[1] /\ v[1] <= Box[3]
                        /\ Box[2] <= v[2] /\ v[2] <= Box[4]

Finished == Entered /\ pc \in {"placed", "returned"}

-----------------------------------------------------------------------------
(* Properties *)

\* C1: at every point of the sweep and at its end, every placed shape lies in
\* the container; it may touch the boundary but no vertex is beyond it.
C1_Containment ==
    Entered => \A i \in 1..Len(placed_shapes) : InBox(placed_shapes[i])

\* A finished sweep with a placed shape that touches the far side of the
\* container.
C1_Witness ==
    /\ Finished
    /\ Len(placed_shapes) >= 2
    /\ \E i \in 1..Len(placed_shapes) : \E v \in Range(placed_shapes[i]) :
           v[1] = Box[3]

\* C2: at every point of the sweep and at its end, the interiors of any two
\* distinct placed shapes do not intersect.
C2_NoOverlap ==
    \A i \in 1..Len(placed_shapes) : \A j \in 1..Len(placed_shapes) :
        i # j => ~InteriorsIntersect(placed_shapes[i], placed_shapes[j])

\* A finished sweep that placed several shapes and left some anchor empty.
C2_Witness ==
    /\ Finished
    /\ Len(placed_shapes) >= 2
    /\ Len(placed_shapes) < Cardinality(Anchors)

Scenario1 ==
    [pts |-> None, container |-> Rect(10, 10), shape |-> UnitSquare,
     angles |-> <<0>>, grid_step |-> 1]

\* C3: the unit square in the 10 x 10 container with grid_step 1 and angle 0
\* alone ends with exactly 100 placed squares and a utilization of 100%.
C3_Scenario1 ==
    (pc = "placed" /\ args = Scenario1) =>
        /\ Len(placed_shapes) = 100
        /\ utilization(placed_shapes, container).num
             = 100 * utilization(placed_shapes, container).dn

\* A utilization figure u lies in [0, 100] and is 0 exactly for the empty list.
UtilizationOk(u) ==
    /\ u.dn > 0
    /\ 0 <= u.num
    /\ u.num <= 100 * u.dn
    /\ (u.num = 0 <=> placed_shapes = <<>>)

\* C4: the utilization of the placed list is between 0 and 100, and is 0 if
\* and only if the list is empty; so is the figure draw_full_convex_hull
\* reports.
C4_UtilizationBound ==
    /\ Entered => UtilizationOk(utilization(placed_shapes, container))
    /\ utilization_percentage # Unbound => UtilizationOk(utilization_percentage)

\* draw_full_convex_hull has reported a positive utilization.
C4_Witness ==
    /\ pc = "returned"
    /\ utilization_percentage # Unbound
    /\ utilization_percentage.num > 0
    /\ Len(placed_shapes) >= 2

\* draw_full_convex_hull was called with fewer than 3 points.
ShortCall == caller = "draw" /\ args.pts # None /\ Len(args.pts) < 3

NoArtifacts ==
    /\ container = <<>>
    /\ rotated_shapes = <<>>
    /\ placed_shapes = <<>>
    /\ utilization_percentage = Unbound

\* C5: 0, 1 or 2 points fail with InsufficientPointsError and leave no
\* Container, RotationSet or PlacedShapeList.  (Lines 93-95 show a dialog and
\* return normally instead: nothing is raised.)
C5_RaisesInsufficientPoints ==
    ShortCall => raised = "InsufficientPointsError" /\ NoArtifacts

\* Indices of the declared angles whose candidate at the current anchor passes
\* can_place against the list as it stands.
Fitting ==
    {k \in 1..Len(args.angles) :
        can_place(Variant(args.angles[k], xs[xi], ys[yi]),
                  placed_shapes, container)}

LeavesAnchor == pc' = "placed" \/ <<xi', yi'>> # <<xi, yi>>

\* C6: a step of the sweep that places a shape places the variant of the first
\* declared angle that passes can_place at the current anchor and then leaves
\* the anchor; a step that places nothing has rejected the angle it tried,
\* moves to the next angle, and leaves the anchor only when no declared angle
\* passes.
C6_FirstFit ==
    [][pc = "place_shapes" =>
         IF placed_shapes' # placed_shapes
         THEN /\ Fitting # {}
              /\ LET k == CHOOSE m \in Fitting : \A n \in Fitting : m <= n
                 IN  placed_shapes' =
                        Append(placed_shapes,
                               Variant(args.angles[k], xs[xi], ys[yi]))
              /\ LeavesAnchor
         ELSE /\ ~can_place(Variant(rotated_shapes[ai].angle, xs[xi], ys[yi]),
                            placed_shapes, container)
              /\ IF LeavesAnchor THEN Fitting = {} ELSE ai' = ai + 1]_vars

\* Some placed shape is not the variant of the first declared angle.
C6_Witness ==
    /\ Entered
    /\ Len(args.angles) >= 2
    /\ \E i \in 1..Len(placed_shapes) :
          LET a == AnchorOf(placed_shapes[i])
          IN  placed_shapes[i] # Variant(args.angles[1], a[1], a[2])

\* C7: every step of the sweep leaves the placed list unchanged or adds one
\* entry at its end, and the entries stand in anchor visit order, each at an
\* anchor of the half-open grid.
C7_AppendOnly ==
    /\ [][pc = "place_shapes" =>
            \/ placed_shapes' = placed_shapes
            \/ /\ Len(placed_shapes') = Len(placed_shapes) + 1
               /\ SubSeq(placed_shapes', 1, Len(placed_shapes)) = placed_shapes
         ]_vars
    /\ [](Entered =>
            /\ \A i \in 1..Len(placed_shapes) :
                  AnchorOf(placed_shapes[i]) \in Anchors
            /\ \A i \in 1..Len(placed_shapes) : \A j \in 1..Len(placed_shapes) :
                  i < j => Before(AnchorOf(placed_shapes[i]),
                                  AnchorOf(placed_shapes[j])))

\* A finished sweep that placed shapes in more than one column and more than
\* one row.
C7_Witness ==
    /\ Finished
    /\ \E i \in 1..Len(placed_shapes) : \E j \in 1..Len(placed_shapes) :
          /\ AnchorOf(placed_shapes[i])[1] < AnchorOf(placed_shapes[j])[1]
          /\ AnchorOf(placed_shapes[i])[2] > AnchorOf(placed_shapes[j])[2]

\* C8: two distinct placed shapes share no point at all, boundary included.
C8_NoContact ==
    \A i \in 1..Len(placed_shapes) : \A j \in 1..Len(placed_shapes) :
        i # j => ~intersects(placed_shapes[i], placed_shapes[j])

\* The sweep is at a candidate that lies in the container and touches a placed
\* shape without overlapping any.
C8_Witness ==
    /\ pc = "place_shapes"
    /\ InBox(Candidate)
    /\ \E i \in 1..Len(placed_shapes) : intersects(Candidate, placed_shapes[i])
    /\ \A i \in 1..Len(placed_shapes) :
          ~InteriorsIntersect(Candidate, placed_shapes[i])

\* C9: when the sweep has ended, no variant of a declared angle at any anchor
\* of the grid passes can_place against the final placed list.
C9_Maximal ==
    Finished =>
        \A a \in Range(args.angles) : \A xy \in Anchors :
            ~can_place(Variant(a, xy[1], xy[2]), placed_shapes, container)

\* A finished sweep over several angles with shapes placed and anchors empty.
C9_Witness ==
    /\ Finished
    /\ Len(args.angles) >= 2
    /\ placed_shapes # <<>>
    /\ Len(placed_shapes) + 2 <= Cardinality(Anchors)

\* C10: points is None or holds at least 3 points; a selection of fewer than 3
\* points leaves it None whatever was stored; Show Cutting Area starts the
\* placement only with such points stored, and otherwise shows the error and
\* leaves the placed list alone.
C10_PointsGuard ==
    /\ [](/\ points = None \/ Len(points) >= 3
          /\ dialog \in {ShowWarning, ShowErrorFirst} => points = None
          /\ dialog = ShowInfo => points # None
          /\ pc # "idle" => points # None /\ args.pts = points)
    /\ [][/\ dialog' = ShowWarning => points' = None
          /\ (pc = "idle" /\ pc' # "idle") => points # None /\ Len(points) >= 3
          /\ (pc = "idle" /\ points = None /\ points' = None
                /\ dialog' # ShowWarning)
             => /\ dialog' = ShowErrorFirst
                /\ pc' = "idle"
                /\ placed_shapes' = placed_shapes]_vars

\* Show Cutting Area was refused after a selection of fewer than 3 points had
\* replaced a valid one whose layout had been computed.
C10_Witness ==
    /\ points = None
    /\ dialog = ShowErrorFirst
    /\ placed_shapes # <<>>
    /\ utilization_percentage # Unbound

=============================================================================
